---- MODULE Spec2Model ----
(***************************************************************************)
(* Model of the container-detection engine of shibukawa/incontainer       *)
(* (incontainer.go).  The host state the probes read (marker files, the   *)
(* environment, the hostname, /proc/1/cgroup) is the state of the model;  *)
(* the exported functions are the actions.  Strings that the code         *)
(* inspects character by character (hostname, cgroup lines) are sequences *)
(* of one-character strings; Ord gives the code point of a character.     *)
(* Confidences are in tenths (0.9 is 9), which keeps their order.         *)
(***************************************************************************)
EXTENDS Integers, Sequences, FiniteSets, TLC

VARIABLES files,      \* path -> "missing" | "denied" | "exists"
          env,        \* variable name -> [set, val]
          hostname,   \* [err, name]: what os.Hostname() returns
          cgroup,     \* [open, lines, end]: what reading /proc/1/cgroup gives
          detectRet,  \* <<r>>: the Result of the last Detect() under this host state
          isInRet,    \* <<b>>: the last IsInContainer() under this host state
          typeRet,    \* <<t>>: the last GetContainerType() under this host state
          probeRet,   \* <<[probe, finding]>>: the last individual probe call
          hexIn,      \* argument of isHexString
          hexOut,     \* <<b>>: what isHexString(hexIn) returned
          cli,        \* the last run of the command-line program: arguments and outcome
          run         \* thread -> the locals of its execution of Detect

hostVars == <<files, env, hostname, cgroup>>
retVars == <<detectRet, isInRet, typeRet, probeRet>>
hexVars == <<hexIn, hexOut, cli, run>>
vars == <<files, env, hostname, cgroup, detectRet, isInRet, typeRet, probeRet, hexIn, hexOut,
          cli, run>>

----------------------------------------------------------------------------
(* Bounds *)

\* Size of a host description: the number of pieces of host state that differ
\* from a bare host (see HostSize).
MaxEvidence == 2

\* Longest argument of isHexString that is enumerated exhaustively.
MaxHexLen == 2

----------------------------------------------------------------------------
(* Characters and strings *)

\* Code points of the characters used by the model.  "U+00E9" stands for the
\* one character e-acute, which UTF-8 encodes in two bytes, and "U+0060" for the
\* grave accent, the character just before "a".
Ord ==
  ("-" :> 45 @@ "." :> 46 @@ "/" :> 47 @@
   "0" :> 48 @@ "1" :> 49 @@ "2" :> 50 @@ "3" :> 51 @@ "4" :> 52 @@
   "5" :> 53 @@ "6" :> 54 @@ "7" :> 55 @@ "8" :> 56 @@ "9" :> 57 @@
   ":" :> 58 @@ "@" :> 64 @@
   "A" :> 65 @@ "B" :> 66 @@ "C" :> 67 @@ "D" :> 68 @@ "E" :> 69 @@
   "F" :> 70 @@ "G" :> 71 @@ "U+0060" :> 96 @@
   "a" :> 97 @@ "b" :> 98 @@ "c" :> 99 @@ "d" :> 100 @@ "e" :> 101 @@
   "f" :> 102 @@ "g" :> 103 @@ "h" :> 104 @@ "i" :> 105 @@ "k" :> 107 @@
   "l" :> 108 @@ "m" :> 109 @@ "n" :> 110 @@ "o" :> 111 @@ "p" :> 112 @@
   "r" :> 114 @@ "s" :> 115 @@ "t" :> 116 @@ "u" :> 117 @@ "w" :> 119 @@
   "x" :> 120 @@ "y" :> 121 @@ "z" :> 122 @@ "U+00E9" :> 233)

\* Number of bytes of the UTF-8 encoding of a character: Go's len(s) counts bytes.
Utf8Len(c) == IF Ord[c] < 128 THEN 1 ELSE IF Ord[c] < 2048 THEN 2 ELSE 3

RECURSIVE ByteLen(_)
\* len(s) of a Go string.
ByteLen(s) == IF s = <<>> THEN 0 ELSE Utf8Len(Head(s)) + ByteLen(Tail(s))

\* strings.Contains(s, substr)
Contains(s, substr) ==
  \E i \in 0..(Len(s) - Len(substr)) :
    \A j \in 1..Len(substr) : s[i + j] = substr[j]

----------------------------------------------------------------------------
(* Container types and results *)

Docker == "docker"
Kubernetes == "kubernetes"
Podman == "podman"
LXC == "lxc"
Colima == "colima"
OrbStack == "orbstack"
RancherDesktop == "rancher-desktop"
Unknown == "unknown"

ContainerType == {Docker, Kubernetes, Podman, LXC, Colima, OrbStack, RancherDesktop, Unknown}

\* What a probe returns: (bool, ContainerType, float64).
Finding(found, t, c) == [found |-> found, ctype |-> t, confidence |-> c]

\* return false, Unknown, 0.0
NotFound == Finding(FALSE, Unknown, 0)

\* type Result struct
Result(in, t, c) == [InContainer |-> in, Type |-> t, Confidence |-> c]

----------------------------------------------------------------------------
(* The host state read by the probes *)

DockerEnvPath == "/.dockerenv"
ServiceAccountPath == "/var/run/secrets/kubernetes.io/serviceaccount"
ColimaSockPath == "/var/run/colima.sock"
OrbStackSockPath == "/var/run/orbstack.sock"
OrbStackOptPath == "/opt/orbstack"
RancherSockPath == "/var/run/rancher-desktop.sock"
K3sPath == "/usr/local/bin/k3s"

\* The paths the probes stat.
Paths == {DockerEnvPath, ServiceAccountPath, ColimaSockPath, OrbStackSockPath,
          OrbStackOptPath, RancherSockPath, K3sPath}

\* A path is missing (stat fails with ENOENT), cannot be examined (stat fails with
\* another error, such as EACCES), or exists.
FileStatus == {"missing", "denied", "exists"}

\* The environment variables the probes look up.
EnvNames == {"KUBERNETES_SERVICE_HOST", "container", "COLIMA", "ORBSTACK", "RANCHER_DESKTOP"}

Unset == [set |-> FALSE, val |-> ""]
SetTo(v) == [set |-> TRUE, val |-> v]

\* The current host state as one value.
Host == [files |-> files, env |-> env, hostname |-> hostname, cgroup |-> cgroup]

\* Mutant of StatOk: only a missing path counts as absent (os.IsNotExist(err)).
StatOk_UnlessNotExist(h, path) == h.files[path] # "missing"

\* _, err := os.Stat(path); err == nil
StatOk(h, path) == h.files[path] = "exists"

\* os.Getenv(key): the value, or "" when the variable is not set.
Getenv(h, key) == IF h.env[key].set THEN h.env[key].val ELSE ""

\* hostname, err := os.Hostname(); err == nil
HostnameOk(h) == ~h.hostname.err

----------------------------------------------------------------------------
(* incontainer.go *)

RECURSIVE isHexFrom(_, _)
\* The loop of isHexString from character i on.
isHexFrom(s, i) ==
  IF i > Len(s) THEN TRUE
  ELSE LET c == Ord[s[i]]
       IN IF ~((c >= Ord["0"] /\ c <= Ord["9"]) \/ (c >= Ord["a"] /\ c <= Ord["f"])
               \/ (c >= Ord["A"] /\ c <= Ord["F"]))
          THEN FALSE
          ELSE isHexFrom(s, i + 1)

\* Mutant of isHexString: the range 'A'..'F' is forgotten.
isHexString_NoUpperCase(s) ==
  \A i \in 1..Len(s) :
    LET c == Ord[s[i]]
    IN (c >= Ord["0"] /\ c <= Ord["9"]) \/ (c >= Ord["a"] /\ c <= Ord["f"])

isHexString(s) == isHexFrom(s, 1)

\* Mutant of CheckDockerEnv: the length of the hostname is not tested.
CheckDockerEnv_NoLength(h) ==
  IF StatOk(h, DockerEnvPath) THEN Finding(TRUE, Docker, 9)
  ELSE IF HostnameOk(h) /\ isHexString(h.hostname.name) THEN Finding(TRUE, Docker, 7)
  ELSE NotFound

CheckDockerEnv(h) ==
  IF StatOk(h, DockerEnvPath) THEN Finding(TRUE, Docker, 9)
  ELSE IF HostnameOk(h) /\ ByteLen(h.hostname.name) = 12 /\ isHexString(h.hostname.name)
       THEN Finding(TRUE, Docker, 7)
  ELSE NotFound

\* The five tests CheckCgroup makes on one line, in their order; <<>> when none matches.
CgroupLine(line) ==
  IF Contains(line, <<"d","o","c","k","e","r">>) THEN <<Finding(TRUE, Docker, 8)>>
  ELSE IF Contains(line, <<"k","u","b","e","p","o","d","s">>) THEN <<Finding(TRUE, Kubernetes, 8)>>
  ELSE IF Contains(line, <<"l","x","c">>) THEN <<Finding(TRUE, LXC, 8)>>
  ELSE IF Contains(line, <<"p","o","d","m","a","n">>) THEN <<Finding(TRUE, Podman, 8)>>
  ELSE IF Contains(line, <<"c","o","l","i","m","a">>) THEN <<Finding(TRUE, Colima, 8)>>
  ELSE <<>>

RECURSIVE CgroupScan(_, _)
\* for scanner.Scan() { ... }: lines is what the scanner delivers before it stops,
\* at the end of the file or at a read error (scanner.Err() is never looked at).
CgroupScan(lines, i) ==
  IF i > Len(lines) THEN NotFound
  ELSE IF CgroupLine(lines[i]) # <<>> THEN CgroupLine(lines[i])[1]
  ELSE CgroupScan(lines, i + 1)

RECURSIVE CgroupScanLast(_, _, _)
\* A scan that does not return at the first matching line: the last match is kept.
CgroupScanLast(lines, i, acc) ==
  IF i > Len(lines) THEN acc
  ELSE IF CgroupLine(lines[i]) # <<>> THEN CgroupScanLast(lines, i + 1, CgroupLine(lines[i])[1])
  ELSE CgroupScanLast(lines, i + 1, acc)

\* Mutant of CheckCgroup: the whole file is scanned and the last match returned.
CheckCgroup_LastMatch(h) ==
  IF ~h.cgroup.open THEN NotFound
  ELSE CgroupScanLast(h.cgroup.lines, 1, NotFound)

CheckCgroup(h) ==
  IF ~h.cgroup.open THEN NotFound
  ELSE CgroupScan(h.cgroup.lines, 1)

\* Mutant of CheckKubernetes: the environment variable is looked up first.
CheckKubernetes_EnvFirst(h) ==
  IF Getenv(h, "KUBERNETES_SERVICE_HOST") # "" THEN Finding(TRUE, Kubernetes, 8)
  ELSE IF StatOk(h, ServiceAccountPath) THEN Finding(TRUE, Kubernetes, 9)
  ELSE NotFound

CheckKubernetes(h) ==
  IF StatOk(h, ServiceAccountPath) THEN Finding(TRUE, Kubernetes, 9)
  ELSE IF Getenv(h, "KUBERNETES_SERVICE_HOST") # "" THEN Finding(TRUE, Kubernetes, 8)
  ELSE NotFound

CheckPodman(h) ==
  IF Getenv(h, "container") = "podman" THEN Finding(TRUE, Podman, 9)
  ELSE NotFound

CheckColima(h) ==
  IF Getenv(h, "COLIMA") # "" THEN Finding(TRUE, Colima, 9)
  ELSE IF StatOk(h, ColimaSockPath) THEN Finding(TRUE, Colima, 8)
  ELSE IF HostnameOk(h) /\ Contains(h.hostname.name, <<"c","o","l","i","m","a">>)
       THEN Finding(TRUE, Colima, 7)
  ELSE NotFound

\* Mutant of CheckOrbStack: the install path is examined before the hostname.
CheckOrbStack_OptFirst(h) ==
  IF Getenv(h, "ORBSTACK") # "" THEN Finding(TRUE, OrbStack, 9)
  ELSE IF StatOk(h, OrbStackSockPath) THEN Finding(TRUE, OrbStack, 8)
  ELSE IF StatOk(h, OrbStackOptPath) THEN Finding(TRUE, OrbStack, 6)
  ELSE IF HostnameOk(h) /\ Contains(h.hostname.name, <<"o","r","b","s","t","a","c","k">>)
       THEN Finding(TRUE, OrbStack, 7)
  ELSE NotFound

CheckOrbStack(h) ==
  IF Getenv(h, "ORBSTACK") # "" THEN Finding(TRUE, OrbStack, 9)
  ELSE IF StatOk(h, OrbStackSockPath) THEN Finding(TRUE, OrbStack, 8)
  ELSE IF HostnameOk(h) /\ Contains(h.hostname.name, <<"o","r","b","s","t","a","c","k">>)
       THEN Finding(TRUE, OrbStack, 7)
  ELSE IF StatOk(h, OrbStackOptPath) THEN Finding(TRUE, OrbStack, 6)
  ELSE NotFound

CheckRancherDesktop(h) ==
  IF Getenv(h, "RANCHER_DESKTOP") # "" THEN Finding(TRUE, RancherDesktop, 9)
  ELSE IF StatOk(h, RancherSockPath) THEN Finding(TRUE, RancherDesktop, 8)
  ELSE IF HostnameOk(h) /\ (Contains(h.hostname.name, <<"r","a","n","c","h","e","r">>)
                            \/ Contains(h.hostname.name, <<"r","d","-">>))
       THEN Finding(TRUE, RancherDesktop, 7)
  ELSE IF StatOk(h, K3sPath) THEN Finding(TRUE, RancherDesktop, 6)
  ELSE NotFound

\* indicators := []func() (bool, ContainerType, float64){ ... }
indicators == <<"CheckDockerEnv", "CheckCgroup", "CheckKubernetes", "CheckPodman",
                "CheckColima", "CheckOrbStack", "CheckRancherDesktop">>

\* check(): the call of one entry of indicators.
Check(name, h) ==
  CASE name = "CheckDockerEnv" -> CheckDockerEnv(h)
    [] name = "CheckCgroup" -> CheckCgroup(h)
    [] name = "CheckKubernetes" -> CheckKubernetes(h)
    [] name = "CheckPodman" -> CheckPodman(h)
    [] name = "CheckColima" -> CheckColima(h)
    [] name = "CheckOrbStack" -> CheckOrbStack(h)
    [] name = "CheckRancherDesktop" -> CheckRancherDesktop(h)

\* The locals of Detect before its loop.
DetectStart == [InContainer |-> FALSE, maxConfidence |-> 0, detectedType |-> Unknown]

\* Mutant of DetectStep: result.InContainer = true is outside "if found".
DetectStep_AlwaysIn(acc, f) ==
  IF f.found /\ f.confidence > acc.maxConfidence
  THEN [InContainer |-> TRUE, maxConfidence |-> f.confidence, detectedType |-> f.ctype]
  ELSE [acc EXCEPT !.InContainer = TRUE]

\* Mutant of DetectStep: result.InContainer = found, so the last probe decides.
DetectStep_LastDecides(acc, f) ==
  IF f.found /\ f.confidence > acc.maxConfidence
  THEN [InContainer |-> TRUE, maxConfidence |-> f.confidence, detectedType |-> f.ctype]
  ELSE [acc EXCEPT !.InContainer = f.found]

\* Mutant of DetectStep: confidence >= maxConfidence, so the last probe wins a tie.
DetectStep_LastWinsTie(acc, f) ==
  IF f.found
  THEN IF f.confidence >= acc.maxConfidence
       THEN [InContainer |-> TRUE, maxConfidence |-> f.confidence, detectedType |-> f.ctype]
       ELSE [acc EXCEPT !.InContainer = TRUE]
  ELSE acc

\* One pass of the body of Detect's loop, given what check() returned.
DetectStep(acc, f) ==
  IF f.found
  THEN IF f.confidence > acc.maxConfidence
       THEN [InContainer |-> TRUE, maxConfidence |-> f.confidence, detectedType |-> f.ctype]
       ELSE [acc EXCEPT !.InContainer = TRUE]
  ELSE acc

RECURSIVE DetectLoop(_, _, _)
\* for _, check := range indicators { ... }, from entry i on.
DetectLoop(h, i, acc) ==
  IF i > Len(indicators) THEN acc
  ELSE DetectLoop(h, i + 1, DetectStep(acc, Check(indicators[i], h)))

Detect(h) ==
  LET acc == DetectLoop(h, 1, DetectStart)
  IN Result(acc.InContainer, acc.detectedType, acc.maxConfidence)

\* Mutant of IsInContainer: only the Docker marker and hostname are consulted.
IsInContainer_DockerOnly(h) == CheckDockerEnv(h).found

IsInContainer(h) == Detect(h).InContainer

GetContainerType(h) == Detect(h).Type

----------------------------------------------------------------------------
(* State of the processes that use the package *)

\* No run of the command-line program is under way or waiting to be collected.
CliIdle == [pc |-> "idle"]

\* The threads of a process that call Detect.
Threads == {"t1", "t2"}

\* A thread that is not in Detect and holds no Result.
ThreadIdle == [pc |-> "idle"]

----------------------------------------------------------------------------
(* Host states explored *)

\* A host with no evidence of a container: hostname "web".
BareHostname == [err |-> FALSE, name |-> <<"w","e","b">>]

\* An empty, readable /proc/1/cgroup.  lines are the lines the reads deliver; end
\* tells whether reading stops at the end of the file or at a read error.
BareCgroup == [open |-> TRUE, lines |-> <<>>, end |-> "eof"]

\* Hostnames os.Hostname() is made to return.
HostNameSamples ==
  { <<"w","e","b">>,
    <<"0","1","2","3","4","5","6","7","8","9","a","b">>,
    <<"a","1","B","2","c","3","D","4","e","5","F","6">>,
    <<"0","1","2","3","4","5","6","7","8","9","a">>,
    <<"0","1","2","3","4","5","6","7","8","9","a","b","c">>,
    <<"0","1","2","3","4","5","6","7","8","9","a","g">>,
    <<"0","1","2","3","4","5","6","7","8","9","U+00E9">>,
    <<"c","o","l","i","m","a">>,
    <<"o","r","b","s","t","a","c","k">>,
    <<"r","a","n","c","h","e","r">>,
    <<"r","d","-","1">>,
    <<"r","d","-","c","o","l","i","m","a">> }

HostnameValues ==
  {[err |-> FALSE, name |-> n] : n \in HostNameSamples} \cup {[err |-> TRUE, name |-> <<>>]}

\* Lines /proc/1/cgroup is made of.
CgroupLineSamples ==
  { <<"0",":",":","/">>,
    <<"1",":","/","d","o","c","k","e","r","/","a","b">>,
    <<"/","k","u","b","e","p","o","d","s","/","p","1">>,
    <<"/","l","x","c","/","c","1">>,
    <<"/","p","o","d","m","a","n">>,
    <<"/","c","o","l","i","m","a">>,
    <<"/","k","u","b","e","p","o","d","s","/","d","o","c","k","e","r","-","a","b">>,
    <<"/","c","o","l","i","m","a","/","p","o","d","m","a","n","/","l","x","c">>,
    <<"/","c","o","l","i","m","a","/","p","o","d","m","a","n">> }

\* Values the environment variables are set to.
EnvValues(key) ==
  CASE key = "KUBERNETES_SERVICE_HOST" -> {"", "10.0.0.1"}
    [] key = "container" -> {"", "podman", "docker"}
    [] OTHER -> {"", "1"}

\* The number of pieces of host state that differ from the bare host.
HostSize(f, e, hn, cg) ==
  Cardinality({p \in Paths : f[p] # "missing"})
  + Cardinality({k \in EnvNames : e[k].set})
  + (IF hn # BareHostname THEN 1 ELSE 0)
  + (IF cg.open THEN 0 ELSE 1)
  + Len(cg.lines)
  + (IF cg.end = "error" THEN 1 ELSE 0)

\* No return value is held: the host state has changed since the calls were made.
NoRets ==
  /\ detectRet' = <<>>
  /\ isInRet' = <<>>
  /\ typeRet' = <<>>
  /\ probeRet' = <<>>

Init ==
  /\ files = [p \in Paths |-> "missing"]
  /\ env = [k \in EnvNames |-> Unset]
  /\ hostname = BareHostname
  /\ cgroup = BareCgroup
  /\ detectRet = <<>>
  /\ isInRet = <<>>
  /\ typeRet = <<>>
  /\ probeRet = <<>>
  /\ hexIn = <<>>
  /\ hexOut = <<>>
  /\ cli = CliIdle
  /\ run = [t \in Threads |-> ThreadIdle]

----------------------------------------------------------------------------
(* Changes of the host state, made by the world around the process *)

\* A path is created, removed, or made inaccessible.
SetFile(p, st) ==
  /\ files[p] # st
  /\ HostSize([files EXCEPT ![p] = st], env, hostname, cgroup) <= MaxEvidence
  /\ files' = [files EXCEPT ![p] = st]
  /\ NoRets
  /\ UNCHANGED <<env, hostname, cgroup, hexIn, hexOut, cli, run>>

\* An environment variable is set (possibly to the empty string).
Setenv(k, v) ==
  /\ env[k] # SetTo(v)
  /\ HostSize(files, [env EXCEPT ![k] = SetTo(v)], hostname, cgroup) <= MaxEvidence
  /\ env' = [env EXCEPT ![k] = SetTo(v)]
  /\ NoRets
  /\ UNCHANGED <<files, hostname, cgroup, hexIn, hexOut, cli, run>>

\* An environment variable is removed from the environment.
Unsetenv(k) ==
  /\ env[k].set
  /\ env' = [env EXCEPT ![k] = Unset]
  /\ NoRets
  /\ UNCHANGED <<files, hostname, cgroup, hexIn, hexOut, cli, run>>

\* The hostname changes, or its lookup starts or stops failing.
SetHostname(hn) ==
  /\ hostname # hn
  /\ HostSize(files, env, hn, cgroup) <= MaxEvidence
  /\ hostname' = hn
  /\ NoRets
  /\ UNCHANGED <<files, env, cgroup, hexIn, hexOut, cli, run>>

\* /proc/1/cgroup gets one more line.
CgroupAppend(line) ==
  /\ HostSize(files, env, hostname, [cgroup EXCEPT !.lines = Append(@, line)]) <= MaxEvidence
  /\ cgroup' = [cgroup EXCEPT !.lines = Append(@, line)]
  /\ NoRets
  /\ UNCHANGED <<files, env, hostname, hexIn, hexOut, cli, run>>

\* /proc/1/cgroup becomes empty.
CgroupTruncate ==
  /\ cgroup.lines # <<>>
  /\ cgroup' = [cgroup EXCEPT !.lines = <<>>]
  /\ NoRets
  /\ UNCHANGED <<files, env, hostname, hexIn, hexOut, cli, run>>

\* /proc/1/cgroup can or cannot be opened.
CgroupSetOpen(b) ==
  /\ cgroup.open # b
  /\ HostSize(files, env, hostname, [cgroup EXCEPT !.open = b]) <= MaxEvidence
  /\ cgroup' = [cgroup EXCEPT !.open = b]
  /\ NoRets
  /\ UNCHANGED <<files, env, hostname, hexIn, hexOut, cli, run>>

\* Reading /proc/1/cgroup ends at the end of the file, or at a read error after
\* the lines delivered so far.
CgroupSetEnd(e) ==
  /\ cgroup.end # e
  /\ HostSize(files, env, hostname, [cgroup EXCEPT !.end = e]) <= MaxEvidence
  /\ cgroup' = [cgroup EXCEPT !.end = e]
  /\ NoRets
  /\ UNCHANGED <<files, env, hostname, hexIn, hexOut, cli, run>>

HostChange ==
  \/ \E p \in Paths, st \in FileStatus : SetFile(p, st)
  \/ \E k \in EnvNames : \E v \in EnvValues(k) : Setenv(k, v)
  \/ \E k \in EnvNames : Unsetenv(k)
  \/ \E hn \in HostnameValues : SetHostname(hn)
  \/ \E line \in CgroupLineSamples : CgroupAppend(line)
  \/ CgroupTruncate
  \/ \E b \in BOOLEAN : CgroupSetOpen(b)
  \/ \E e \in {"eof", "error"} : CgroupSetEnd(e)

----------------------------------------------------------------------------
(* Calls of the exported functions *)

CallDetect ==
  /\ detectRet' = <<Detect(Host)>>
  /\ UNCHANGED <<files, env, hostname, cgroup, isInRet, typeRet, probeRet, hexIn, hexOut, cli, run>>

CallIsInContainer ==
  /\ isInRet' = <<IsInContainer(Host)>>
  /\ UNCHANGED <<files, env, hostname, cgroup, detectRet, typeRet, probeRet, hexIn, hexOut, cli, run>>

CallGetContainerType ==
  /\ typeRet' = <<GetContainerType(Host)>>
  /\ UNCHANGED <<files, env, hostname, cgroup, detectRet, isInRet, probeRet, hexIn, hexOut, cli, run>>

\* A caller invokes one probe on its own, as the exported Check functions allow.
CallProbe(name) ==
  /\ probeRet' = <<[probe |-> name, finding |-> Check(name, Host)]>>
  /\ UNCHANGED <<files, env, hostname, cgroup, detectRet, isInRet, typeRet, hexIn, hexOut, cli, run>>

Next ==
  \/ HostChange
  \/ CallDetect
  \/ CallIsInContainer
  \/ CallGetContainerType

\* The aggregator and its projections on a changing host.
Spec == Init /\ [][Next]_vars

NextProbe ==
  \/ HostChange
  \/ \E i \in 1..Len(indicators) : CallProbe(indicators[i])

\* The individual probes on a changing host.
SpecProbe == Init /\ [][NextProbe]_vars

----------------------------------------------------------------------------
(* cmd/incontainer/main.go *)

\* checks := map[string]func() (bool, incontainer.ContainerType, float64){ ... }
checks ==
  [docker_env |-> "CheckDockerEnv", cgroup |-> "CheckCgroup",
   kubernetes |-> "CheckKubernetes", podman |-> "CheckPodman"]

\* The DetailedResult built from the Result of Detect and one call of each entry
\* of checks (the map is ranged over in any order; each call only reads h).
getDetailedResult(result, h) ==
  [InContainer |-> result.InContainer, Type |-> result.Type,
   Confidence |-> result.Confidence,
   Details |-> [name \in DOMAIN checks |-> Check(checks[name], h)]]

\* Mutant of ExitCode: the two statuses are swapped.
ExitCode_Swapped(result) == IF result.InContainer THEN 1 ELSE 0

\* if result.InContainer { os.Exit(0) } else { os.Exit(1) }
ExitCode(result) == IF result.InContainer THEN 0 ELSE 1

\* The command lines made of the three flags, and whether standard output can be
\* written (the only way encoder.Encode fails on a DetailedResult).
CliArgs == [json : BOOLEAN, verbose : BOOLEAN, help : BOOLEAN, stdoutOk : BOOLEAN]

\* main() on host state h: the exit status, the Result and DetailedResult it
\* built, and the form of its output.  Returning from main is exit status 0.
main(args, h) ==
  IF args.help
  THEN [exit |-> 0, result |-> <<>>, detailed |-> <<>>, out |-> "help"]
  ELSE LET result == Detect(h)
       IN IF args.verbose \/ args.json
          THEN LET detailed == getDetailedResult(result, h)
               IN IF args.json
                  THEN IF ~args.stdoutOk
                       THEN [exit |-> 2, result |-> <<result>>, detailed |-> <<detailed>>,
                             out |-> "error"]
                       ELSE [exit |-> ExitCode(result), result |-> <<result>>,
                             detailed |-> <<detailed>>, out |-> "json"]
                  ELSE [exit |-> ExitCode(result), result |-> <<result>>,
                        detailed |-> <<detailed>>, out |-> "verbose"]
          ELSE [exit |-> ExitCode(result), result |-> <<result>>, detailed |-> <<>>,
                out |-> "simple"]

\* The program is started with args and runs to its exit.
RunMain(args) ==
  /\ cli.pc = "idle"
  /\ cli' = [pc |-> "exited", args |-> args, outcome |-> main(args, Host)]
  /\ UNCHANGED <<files, env, hostname, cgroup, detectRet, isInRet, typeRet, probeRet,
                 hexIn, hexOut, run>>

\* The parent process collects the exit status.
Reap ==
  /\ cli.pc = "exited"
  /\ cli' = CliIdle
  /\ UNCHANGED <<files, env, hostname, cgroup, detectRet, isInRet, typeRet, probeRet,
                 hexIn, hexOut, run>>

NextCLI ==
  \/ cli.pc = "idle" /\ HostChange
  \/ \E args \in CliArgs : RunMain(args)
  \/ Reap

\* Runs of the command-line program, one after the other, on a host that changes
\* between them.
SpecCLI == Init /\ [][NextCLI]_vars

----------------------------------------------------------------------------
(* Detect executed step by step by concurrent callers *)

\* Mutant of ProbeCall: findings are kept in a process-wide cache, so a caller
\* gets the finding another caller has obtained from the same probe.
ProbeCall_Cached(t, name) ==
  LET others == {u \in Threads \ {t} :
                   /\ run[u].pc # "idle"
                   /\ \E k \in 1..Len(run[u].read) : run[u].read[k].probe = name}
  IN IF others = {} THEN Check(name, Host)
     ELSE LET u == CHOOSE u \in others : TRUE
              k == CHOOSE k \in 1..Len(run[u].read) : run[u].read[k].probe = name
          IN run[u].read[k].finding

\* check() called by thread t for the entry name of indicators: the probes read
\* the host state as it is at the call and nothing else.
ProbeCall(t, name) == Check(name, Host)

\* Mutant of LoopDone: the loop is left as soon as a finding has confidence 0.9.
LoopDone_StopAtBest(t) ==
  run[t].i > Len(indicators) \/ run[t].acc.maxConfidence >= 9

\* The range loop of Detect has passed the last entry of indicators.
LoopDone(t) == run[t].i > Len(indicators)

\* Thread t calls Detect: the locals are initialized.  log and read are history:
\* the probes invoked by this execution and what reading the host state gave
\* at each invocation.
Enter(t) ==
  /\ run[t].pc \in {"idle", "returned"}
  /\ run' = [run EXCEPT ![t] = [pc |-> "loop", i |-> 1, acc |-> DetectStart,
                                log |-> <<>>, read |-> <<>>]]
  /\ UNCHANGED <<files, env, hostname, cgroup, detectRet, isInRet, typeRet, probeRet,
                 hexIn, hexOut, cli>>

\* One pass of the loop of Detect in thread t.
Iterate(t) ==
  /\ run[t].pc = "loop"
  /\ ~LoopDone(t)
  /\ LET name == indicators[run[t].i]
     IN run' = [run EXCEPT ![t] =
                  [@ EXCEPT !.i = @ + 1,
                            !.acc = DetectStep(@, ProbeCall(t, name)),
                            !.log = Append(@, name),
                            !.read = Append(@, [probe |-> name,
                                                finding |-> Check(name, Host)])]]
  /\ UNCHANGED <<files, env, hostname, cgroup, detectRet, isInRet, typeRet, probeRet,
                 hexIn, hexOut, cli>>

\* Detect returns its Result to thread t.
Return(t) ==
  /\ run[t].pc = "loop"
  /\ LoopDone(t)
  /\ run' = [run EXCEPT ![t] =
               [pc |-> "returned", log |-> @.log, read |-> @.read,
                ret |-> Result(@.acc.InContainer, @.acc.detectedType, @.acc.maxConfidence)]]
  /\ UNCHANGED <<files, env, hostname, cgroup, detectRet, isInRet, typeRet, probeRet,
                 hexIn, hexOut, cli>>

\* A step of thread t inside Detect.
DetectAction(t) == Iterate(t) \/ Return(t)

\* The changes of the host state made while callers are in Detect: the Docker
\* marker, the container variable, a kubepods line in the cgroup file and the
\* k3s binary come and go.
ConcHostChange ==
  \/ \E st \in {"missing", "exists"} : SetFile(DockerEnvPath, st)
  \/ \E st \in {"missing", "exists"} : SetFile(K3sPath, st)
  \/ Setenv("container", "podman")
  \/ Unsetenv("container")
  \/ CgroupAppend(<<"/","k","u","b","e","p","o","d","s","/","p","1">>)
  \/ CgroupTruncate

NextConc ==
  \/ ConcHostChange
  \/ \E t \in Threads : Enter(t)
  \/ \E t \in Threads : Iterate(t)
  \/ \E t \in Threads : Return(t)

\* Concurrent callers of Detect on a changing host.
SpecConc == Init /\ [][NextConc]_vars

\* A thread inside Detect keeps running: nothing in Detect waits for anything.
FairSpecConc == SpecConc /\ \A t \in Threads : WF_vars(DetectAction(t))

----------------------------------------------------------------------------
(* isHexString on its own *)

\* Hexadecimal digits at the ends of their ranges, the characters just outside
\* the three ranges, and two characters far from them.
HexAlphabet == {"0", "9", "a", "f", "A", "F", "/", ":", "@", "G", "U+0060", "g", "x", "-"}

\* The inputs of TestIsHexString.
HexTestInputs ==
  { <<"a","b","c","1","2","3">>,
    <<"A","B","C","1","2","3">>,
    <<"1","2","3","4","5","6","7","8","9","a","b","c">>,
    <<"x","y","z","1","2","3">>,
    <<"1","2","3","-","4","5","6">>,
    <<>> }

HexInputs == UNION {[1..n -> HexAlphabet] : n \in 0..MaxHexLen} \cup HexTestInputs

\* isHexString is called on any of the arguments, on a bare host.
InitHex ==
  /\ files = [p \in Paths |-> "missing"]
  /\ env = [k \in EnvNames |-> Unset]
  /\ hostname = BareHostname
  /\ cgroup = BareCgroup
  /\ detectRet = <<>>
  /\ isInRet = <<>>
  /\ typeRet = <<>>
  /\ probeRet = <<>>
  /\ hexIn \in HexInputs
  /\ hexOut = <<>>
  /\ cli = CliIdle
  /\ run = [t \in Threads |-> ThreadIdle]

CallIsHexString ==
  /\ hexOut' = <<isHexString(hexIn)>>
  /\ UNCHANGED <<files, env, hostname, cgroup, detectRet, isInRet, typeRet, probeRet, hexIn, cli, run>>

NextHex == CallIsHexString

\* isHexString on every argument of HexInputs.
SpecHex == InitHex /\ [][NextHex]_vars

----------------------------------------------------------------------------
(* Properties of Detect and its projections, under Spec *)

\* The seven probes in the order in which Detect is to consult them.
ProbeOrder == <<"CheckDockerEnv", "CheckCgroup", "CheckKubernetes", "CheckPodman",
                "CheckColima", "CheckOrbStack", "CheckRancherDesktop">>

\* The places in ProbeOrder of the probes that fire on host state h.
Fired(h) == {i \in 1..Len(ProbeOrder) : Check(ProbeOrder[i], h).found}

\* The confidence the probe at place i reports on h.
ConfidenceAt(h, i) == Check(ProbeOrder[i], h).confidence

\* The greatest confidence among the probes that fire on h (some probe fires).
MaxFired(h) ==
  CHOOSE m \in {ConfidenceAt(h, i) : i \in Fired(h)} :
    \A i \in Fired(h) : ConfidenceAt(h, i) <= m

\* The earliest place in ProbeOrder of a probe that fires with MaxFired(h).
FirstAtMax(h) ==
  CHOOSE i \in Fired(h) :
    /\ ConfidenceAt(h, i) = MaxFired(h)
    /\ \A j \in Fired(h) : ConfidenceAt(h, j) = MaxFired(h) => i <= j

\* C1: the Result of Detect is well formed: its confidence is within [0.0, 1.0];
\* when InContainer is false the confidence is 0.0 and the type Unknown; when
\* InContainer is true the type is not Unknown and the confidence is above 0.0.
C1_ResultWellFormed ==
  detectRet # <<>> =>
    LET r == detectRet[1]
    IN /\ r.Confidence >= 0 /\ r.Confidence <= 10
       /\ r.Type \in ContainerType
       /\ ~r.InContainer => (r.Confidence = 0 /\ r.Type = Unknown)
       /\ r.InContainer => (r.Type # Unknown /\ r.Confidence > 0)

\* Detect has returned a positive result resting on the weakest rule (0.6).
C1_Witness ==
  /\ detectRet # <<>>
  /\ detectRet[1].InContainer
  /\ detectRet[1].Confidence = 6

\* C2: Detect returns InContainer = true exactly when at least one of the seven
\* probes fires on the host state, whichever probe provides type and confidence.
C2_InContainerIffSomeProbeFires ==
  detectRet # <<>> => (detectRet[1].InContainer <=> Fired(Host) # {})

\* Detect has returned a positive result while a probe that fired reports another
\* type than the one in the result.
C2_Witness ==
  /\ detectRet # <<>>
  /\ detectRet[1].InContainer
  /\ \E i \in Fired(Host) : Check(ProbeOrder[i], Host).ctype # detectRet[1].Type

\* C3: when some probe fires, the confidence of Detect is the greatest confidence
\* among the firing probes and its type is that of the earliest probe, in the
\* order DockerEnv, Cgroup, Kubernetes, Podman, Colima, OrbStack,
\* RancherDesktop, with that confidence; the Docker marker file together
\* with a "kubepods" cgroup line gives Docker at 0.9; a single firing probe gives
\* its own type and confidence.
C3_MaxConfidenceFirstWins ==
  (detectRet # <<>> /\ Fired(Host) # {}) =>
    LET r == detectRet[1]
    IN /\ r.Confidence = MaxFired(Host)
       /\ r.Type = Check(ProbeOrder[FirstAtMax(Host)], Host).ctype
       /\ (/\ StatOk(Host, DockerEnvPath)
           /\ CheckCgroup(Host) = Finding(TRUE, Kubernetes, 8))
          => (r.Type = Docker /\ r.Confidence = 9)
       /\ \A i \in Fired(Host) :
            Fired(Host) = {i} =>
              /\ r.Type = Check(ProbeOrder[i], Host).ctype
              /\ r.Confidence = ConfidenceAt(Host, i)

\* Detect has returned while two probes of different types fire with the same,
\* greatest confidence.
C3_Witness ==
  /\ detectRet # <<>>
  /\ \E i, j \in Fired(Host) :
       /\ i < j
       /\ ConfidenceAt(Host, i) = MaxFired(Host)
       /\ ConfidenceAt(Host, j) = MaxFired(Host)
       /\ Check(ProbeOrder[i], Host).ctype # Check(ProbeOrder[j], Host).ctype

\* C4: under an unchanged host state IsInContainer() returns Detect().InContainer
\* and GetContainerType() returns Detect().Type, in whatever order the calls are made.
C4_ProjectionsAgree ==
  /\ (isInRet # <<>> /\ detectRet # <<>>) => isInRet[1] = detectRet[1].InContainer
  /\ (typeRet # <<>> /\ detectRet # <<>>) => typeRet[1] = detectRet[1].Type

\* The three functions have returned under one host state that holds evidence for
\* a probe other than the Docker one.
C4_Witness ==
  /\ isInRet = <<TRUE>>
  /\ typeRet # <<>>
  /\ detectRet # <<>>
  /\ typeRet[1] \notin {Docker, Unknown}

----------------------------------------------------------------------------
(* Properties of the probes, under SpecProbe *)

\* Host state h with every failing read replaced by a successful read that finds
\* nothing: an inaccessible path is missing, an unset variable is empty, a failed
\* hostname lookup gives the empty name, an unopenable cgroup file is empty, and
\* a read error is the end of the file.
AsAbsent(h) ==
  [files |-> [p \in Paths |-> IF h.files[p] = "denied" THEN "missing" ELSE h.files[p]],
   env |-> [k \in EnvNames |-> IF h.env[k].set THEN h.env[k] ELSE SetTo("")],
   hostname |-> IF h.hostname.err THEN [err |-> FALSE, name |-> <<>>] ELSE h.hostname,
   cgroup |-> IF h.cgroup.open THEN [h.cgroup EXCEPT !.end = "eof"] ELSE BareCgroup]

\* Every read of host state h fails.
AllReadsFail(h) ==
  /\ \A p \in Paths : h.files[p] # "exists"
  /\ \A k \in EnvNames : ~h.env[k].set
  /\ h.hostname.err
  /\ ~h.cgroup.open \/ (h.cgroup.lines = <<>> /\ h.cgroup.end = "error")

\* C5: a probe always returns a finding; a read that fails (stat error, cgroup
\* file that cannot be opened or read, hostname lookup error, unset variable) is
\* a rule that does not match, so the finding is the one the remaining rules
\* give, and (false, Unknown, 0.0) if none matches; a missing and an unreadable
\* marker give the same finding.  The same holds of Detect.
C5_FailedReadsAreNoMatch ==
  probeRet # <<>> =>
    LET p == probeRet[1].probe
        f == probeRet[1].finding
    IN /\ f \in [found : BOOLEAN, ctype : ContainerType, confidence : 0..10]
       /\ f = Check(p, AsAbsent(Host))
       /\ AllReadsFail(Host) => f = NotFound
       /\ Detect(Host) = Detect(AsAbsent(Host))
       /\ AllReadsFail(Host) => Detect(Host) = Result(FALSE, Unknown, 0)

\* CheckDockerEnv has returned the hostname finding after the stat of the marker
\* failed with an error other than "no such file".
C5_Witness ==
  /\ probeRet # <<>>
  /\ probeRet[1].probe = "CheckDockerEnv"
  /\ files[DockerEnvPath] = "denied"
  /\ probeRet[1].finding = Finding(TRUE, Docker, 7)

\* The substrings CheckCgroup recognizes with their types, in the order of the tests.
CgroupKeywords ==
  << [sub |-> <<"d","o","c","k","e","r">>, kind |-> Docker],
     [sub |-> <<"k","u","b","e","p","o","d","s">>, kind |-> Kubernetes],
     [sub |-> <<"l","x","c">>, kind |-> LXC],
     [sub |-> <<"p","o","d","m","a","n">>, kind |-> Podman],
     [sub |-> <<"c","o","l","i","m","a">>, kind |-> Colima] >>

\* The places in CgroupKeywords of the substrings that line contains.
KeywordsIn(line) == {k \in 1..Len(CgroupKeywords) : Contains(line, CgroupKeywords[k].sub)}

\* The least element of a non-empty set of numbers.
Least(S) == CHOOSE x \in S : \A y \in S : x <= y

\* C6: CheckCgroup returns at the first line, in file order, that contains a
\* recognized substring, whatever the later lines are; within that line the
\* substrings are tested in the order docker, kubepods, lxc, podman, colima and
\* the confidence is always 0.8 (a line with "kubepods" and "docker" gives
\* Docker); with no such line the result is (false, Unknown, 0.0).
C6_CgroupFirstMatchingLine ==
  (probeRet # <<>> /\ probeRet[1].probe = "CheckCgroup") =>
    LET f == probeRet[1].finding
        lines == IF cgroup.open THEN cgroup.lines ELSE <<>>
        matching == {i \in 1..Len(lines) : KeywordsIn(lines[i]) # {}}
    IN IF matching = {}
       THEN f = NotFound
       ELSE LET line == lines[Least(matching)]
            IN /\ f = Finding(TRUE, CgroupKeywords[Least(KeywordsIn(line))].kind, 8)
               /\ (2 \in KeywordsIn(line) /\ 1 \in KeywordsIn(line)) => f.ctype = Docker

\* CheckCgroup has returned Kubernetes for a file whose first line names only
\* kubepods and whose second line names docker.
C6_Witness ==
  /\ probeRet # <<>>
  /\ probeRet[1].probe = "CheckCgroup"
  /\ probeRet[1].finding = Finding(TRUE, Kubernetes, 8)
  /\ Len(cgroup.lines) = 2
  /\ KeywordsIn(cgroup.lines[1]) = {2}
  /\ 1 \in KeywordsIn(cgroup.lines[2])

\* The hexadecimal digits.
HexDigits == {"0", "1", "2", "3", "4", "5", "6", "7", "8", "9",
              "a", "b", "c", "d", "e", "f", "A", "B", "C", "D", "E", "F"}

\* Every character of s is a hexadecimal digit.
AllHex(s) == \A i \in 1..Len(s) : s[i] \in HexDigits

\* C7: CheckDockerEnv returns (true, Docker, 0.9) when /.dockerenv exists,
\* whatever the hostname; without the marker it returns (true, Docker, 0.7)
\* exactly when the hostname has 12 characters, all hexadecimal digits of either
\* case; otherwise (false, Unknown, 0.0).
C7_DockerEnvRules ==
  (probeRet # <<>> /\ probeRet[1].probe = "CheckDockerEnv") =>
    probeRet[1].finding =
      IF files[DockerEnvPath] = "exists" THEN Finding(TRUE, Docker, 9)
      ELSE IF ~hostname.err /\ Len(hostname.name) = 12 /\ AllHex(hostname.name)
           THEN Finding(TRUE, Docker, 7)
      ELSE NotFound

\* CheckDockerEnv has returned the hostname finding for a hostname of 12
\* hexadecimal digits of both cases, the marker being missing.
C7_Witness ==
  /\ probeRet # <<>>
  /\ probeRet[1].probe = "CheckDockerEnv"
  /\ files[DockerEnvPath] = "missing"
  /\ \E i \in 1..Len(hostname.name) : hostname.name[i] \in {"A", "B", "C", "D", "E", "F"}
  /\ probeRet[1].finding = Finding(TRUE, Docker, 7)

\* C9: CheckKubernetes returns (true, Kubernetes, 0.9) when the service-account
\* directory exists; otherwise (true, Kubernetes, 0.8) exactly when
\* KUBERNETES_SERVICE_HOST is set to a non-empty value; otherwise
\* (false, Unknown, 0.0).
C9_KubernetesRules ==
  (probeRet # <<>> /\ probeRet[1].probe = "CheckKubernetes") =>
    probeRet[1].finding =
      IF files[ServiceAccountPath] = "exists" THEN Finding(TRUE, Kubernetes, 9)
      ELSE IF env["KUBERNETES_SERVICE_HOST"].set /\ env["KUBERNETES_SERVICE_HOST"].val # ""
           THEN Finding(TRUE, Kubernetes, 8)
      ELSE NotFound

\* CheckKubernetes has returned 0.9 on a host where the directory exists and the
\* variable is set as well.
C9_Witness ==
  /\ probeRet # <<>>
  /\ probeRet[1].probe = "CheckKubernetes"
  /\ files[ServiceAccountPath] = "exists"
  /\ env["KUBERNETES_SERVICE_HOST"] = SetTo("10.0.0.1")
  /\ probeRet[1].finding = Finding(TRUE, Kubernetes, 9)

\* The rules of the three desktop-virtualization probes as the specification
\* tabulates them: variable, socket path, hostname substrings, install path.
DesktopProbes ==
  { [probe |-> "CheckColima", kind |-> Colima, var |-> "COLIMA",
     sock |-> ColimaSockPath, subs |-> {<<"c","o","l","i","m","a">>}, path |-> <<>>],
    [probe |-> "CheckOrbStack", kind |-> OrbStack, var |-> "ORBSTACK",
     sock |-> OrbStackSockPath, subs |-> {<<"o","r","b","s","t","a","c","k">>},
     path |-> <<OrbStackOptPath>>],
    [probe |-> "CheckRancherDesktop", kind |-> RancherDesktop, var |-> "RANCHER_DESKTOP",
     sock |-> RancherSockPath, subs |-> {<<"r","a","n","c","h","e","r">>, <<"r","d","-">>},
     path |-> <<K3sPath>>] }

\* The finding of the first rule of d that matches, given whether its
\* environment rule matches.
DesktopFinding(d, envMatches) ==
  IF envMatches THEN Finding(TRUE, d.kind, 9)
  ELSE IF files[d.sock] = "exists" THEN Finding(TRUE, d.kind, 8)
  ELSE IF ~hostname.err /\ \E sub \in d.subs : Contains(hostname.name, sub)
       THEN Finding(TRUE, d.kind, 7)
  ELSE IF d.path # <<>> /\ files[d.path[1]] = "exists" THEN Finding(TRUE, d.kind, 6)
  ELSE NotFound

\* C8 as stated: the environment rule of CheckColima, CheckOrbStack and
\* CheckRancherDesktop matches when the variable is present in the environment.
C8_EnvPresentMatches ==
  \A d \in DesktopProbes :
    (probeRet # <<>> /\ probeRet[1].probe = d.probe) =>
      probeRet[1].finding = DesktopFinding(d, env[d.var].set)

\* C8 (amended): each of CheckColima, CheckOrbStack and CheckRancherDesktop
\* returns the finding of its first matching rule: 0.9 if its variable (COLIMA,
\* ORBSTACK, RANCHER_DESKTOP) is set to a non-empty value; else 0.8 if its socket
\* path exists; else 0.7 if the hostname contains its substring; else, for
\* OrbStack and Rancher Desktop, 0.6 if the install path exists; else
\* (false, Unknown, 0.0).
C8_DesktopRules ==
  \A d \in DesktopProbes :
    (probeRet # <<>> /\ probeRet[1].probe = d.probe) =>
      probeRet[1].finding = DesktopFinding(d, env[d.var].set /\ env[d.var].val # "")

\* CheckOrbStack has returned the socket finding on a host where ORBSTACK is
\* present in the environment with the empty value.
C8_Witness ==
  /\ probeRet # <<>>
  /\ probeRet[1].probe = "CheckOrbStack"
  /\ env["ORBSTACK"] = SetTo("")
  /\ probeRet[1].finding = Finding(TRUE, OrbStack, 8)

----------------------------------------------------------------------------
(* Properties of isHexString, under SpecHex *)

\* C10: isHexString(s) is true exactly when every character of s is one of 0-9,
\* a-f, A-F; it is true of the empty string and false of a string that
\* contains "x" or "-".
C10_IsHexString ==
  hexOut # <<>> =>
    /\ hexOut[1] = AllHex(hexIn)
    /\ hexIn = <<>> => hexOut[1]
    /\ (\E i \in 1..Len(hexIn) : hexIn[i] \in {"x", "-"}) => ~hexOut[1]

\* isHexString has returned false for "123-456".
C10_Witness ==
  /\ hexIn = <<"1","2","3","-","4","5","6">>
  /\ hexOut = <<FALSE>>

----------------------------------------------------------------------------
(* Properties of the command-line program, under SpecCLI *)

\* JSON encoding of the output failed in the run held in cli.
EncodingFailed == ~cli.args.help /\ cli.args.json /\ ~cli.args.stdoutOk

\* C11 as stated: whatever the flags, -h included, the exit status is 0 exactly
\* when detection on the host gives InContainer = true and 1 exactly when it
\* gives false, status 2 occurring only when JSON encoding fails.
C11_ExitStatusReportsVerdict ==
  cli.pc = "exited" =>
    /\ cli.outcome.exit = 2 => EncodingFailed
    /\ cli.outcome.exit # 2 =>
         /\ cli.outcome.exit = 0 <=> Detect(Host).InContainer
         /\ cli.outcome.exit = 1 <=> ~Detect(Host).InContainer

\* C11 (amended): in a run without -h, whatever -json and -v, the exit status is
\* 2 exactly when JSON encoding fails, and otherwise 0 exactly when the Result of
\* Detect has InContainer = true and 1 exactly when it has false; a run with -h
\* prints the usage and exits with status 0 without running detection.
C11_ExitStatus ==
  cli.pc = "exited" =>
    IF cli.args.help
    THEN cli.outcome.exit = 0 /\ cli.outcome.result = <<>>
    ELSE /\ cli.outcome.result = <<Detect(Host)>>
         /\ cli.outcome.exit = 2 <=> EncodingFailed
         /\ ~EncodingFailed =>
              /\ cli.outcome.exit = 0 <=> cli.outcome.result[1].InContainer
              /\ cli.outcome.exit = 1 <=> ~cli.outcome.result[1].InContainer

\* A run with -json and -v has exited with status 0 on a host with evidence.
C11_Witness ==
  /\ cli.pc = "exited"
  /\ cli.args = [json |-> TRUE, verbose |-> TRUE, help |-> FALSE, stdoutOk |-> TRUE]
  /\ cli.outcome.exit = 0
  /\ Fired(Host) # {}

\* C14: in the -v and -json modes the details map explains the verdict:
\* in_container is true exactly when some details entry has found = true, and
\* then the top-level type and confidence are those of a details entry with
\* found = true whose confidence is greatest among the entries, whichever probe
\* of the engine holds the evidence (Colima, OrbStack and Rancher Desktop too).
C14_DetailsExplainVerdict ==
  (cli.pc = "exited" /\ cli.outcome.out \in {"json", "verbose"}) =>
    LET d == cli.outcome.detailed[1]
        found == {n \in DOMAIN d.Details : d.Details[n].found}
    IN /\ d.InContainer <=> found # {}
       /\ d.InContainer =>
            \E n \in found :
              /\ \A m \in found : d.Details[m].confidence <= d.Details[n].confidence
              /\ d.Type = d.Details[n].ctype
              /\ d.Confidence = d.Details[n].confidence

----------------------------------------------------------------------------
(* Properties of concurrent executions of Detect, under SpecConc *)

\* The verdict that aggregation gives for the findings fs: in a container when
\* some finding is positive, with the greatest confidence among the positive
\* findings and the type of the earliest finding that has it.
Aggregate(fs) ==
  LET F == {i \in 1..Len(fs) : fs[i].found}
  IN IF F = {} THEN Result(FALSE, Unknown, 0)
     ELSE LET m == CHOOSE c \in {fs[i].confidence : i \in F} :
                     \A i \in F : fs[i].confidence <= c
          IN Result(TRUE, fs[Least({i \in F : fs[i].confidence = m})].ctype, m)

\* The Result every returned call holds is the aggregation of what the host
\* state gave when that call read it.
ResultsFromOwnReads ==
  \A t \in Threads :
    run[t].pc = "returned" =>
      /\ \A k \in 1..Len(run[t].read) : run[t].read[k].probe = ProbeOrder[k]
      /\ run[t].ret = Aggregate([k \in 1..Len(run[t].read) |-> run[t].read[k].finding])

\* A step of a call writes neither the host state nor the locals of another caller.
CallsWriteOwnLocalsOnly ==
  \A t \in Threads :
    (Enter(t) \/ DetectAction(t)) =>
      /\ UNCHANGED hostVars
      /\ \A u \in Threads \ {t} : run'[u] = run[u]

\* C12: for any sequence of calls, any interleaving of concurrent calls and any
\* changes of the host state between and during calls, the Result of each call
\* of Detect is the aggregation of the host state as read during that call
\* (nothing is kept from an earlier call or shared with another caller), and no
\* call writes the host state or state shared between callers.
C12_StatelessCalls == []ResultsFromOwnReads /\ [][CallsWriteOwnLocalsOnly]_vars

\* Two calls have returned different Results, one of them having read the Docker
\* marker as absent before it was created.
C12_Witness ==
  /\ run["t1"].pc = "returned"
  /\ run["t2"].pc = "returned"
  /\ run["t1"].ret # run["t2"].ret
  /\ run["t1"].read[1].finding = NotFound
  /\ run["t2"].read[1].finding = Finding(TRUE, Docker, 9)
  /\ StatOk(Host, DockerEnvPath)

----------------------------------------------------------------------------
(* Properties of each execution of Detect, under FairSpecConc *)

\* The probes an execution has invoked so far are the first ones of ProbeOrder,
\* each once, and an execution that has returned has invoked all seven.
InvokedInOrder ==
  \A t \in Threads :
    run[t].pc \in {"loop", "returned"} =>
      /\ Len(run[t].log) <= Len(ProbeOrder)
      /\ \A k \in 1..Len(run[t].log) : run[t].log[k] = ProbeOrder[k]
      /\ run[t].pc = "returned" => run[t].log = ProbeOrder

\* C13: every execution of Detect invokes the seven probes exactly once each, in
\* the order CheckDockerEnv, CheckCgroup, CheckKubernetes, CheckPodman,
\* CheckColima, CheckOrbStack, CheckRancherDesktop, before it returns, whatever
\* the earlier probes found, and every execution that has started returns.
C13_AllProbesInOrder ==
  /\ []InvokedInOrder
  /\ \A t \in Threads : (run[t].pc = "loop") ~> (run[t].pc = "returned")

\* An execution whose first probe found the Docker marker, with the highest
\* confidence, has returned after invoking all seven probes.
C13_Witness ==
  /\ run["t1"].pc = "returned"
  /\ run["t1"].read[1].finding = Finding(TRUE, Docker, 9)
  /\ run["t1"].log = ProbeOrder
  /\ run["t1"].ret = Result(TRUE, Docker, 9)

====
